---- MODULE Spec2Model ----
(***************************************************************************)
(* Derived-state computation of the three Mongoose models of the finance   *)
(* backend: Budget (src/unnamed/part_001), TaxRecord (src/unnamed/part_000)*)
(* and EstatePlan (src/server/models/EstatePlan.js).                       *)
(*                                                                         *)
(* A document is a record of its schema paths.  A path that is undefined   *)
(* in JavaScript is the empty sequence, a defined value v is <<v>>.  Dates  *)
(* are integers: the number of clock units (MsPerUnit milliseconds each)   *)
(* since 2000-01-01T00:00 local time, in a time zone without daylight      *)
(* saving.                                                                 *)
(*                                                                         *)
(* save() is modelled as Mongoose runs it: the schema validators run       *)
(* first (the built-in validation hook precedes every pre('save') hook the *)
(* schema registers), then the schema's pre('save') hook, then the write:  *)
(* an insert of the whole document when it is new, otherwise an update of  *)
(* the paths that differ from what was loaded, with array pushes sent as   *)
(* $push.                                                                  *)
(***************************************************************************)
EXTENDS Integers, Sequences, FiniteSets, TLC

VARIABLES now, store, mem, base, phase, ret, tax, taxPhase, estate, estatePhase

vars == <<now, store, mem, base, phase, ret, tax, taxPhase, estate, estatePhase>>

(***************************************************************************)
(* Bounds of the model.                                                    *)
(***************************************************************************)
MaxTx == 2
MaxAssets == 3

(***************************************************************************)
(* JavaScript values.                                                      *)
(***************************************************************************)
Undefined == <<>>
Def(v) == <<v>>
ValueOf(o) == o[1]
\* !x for a numeric path: undefined and 0 are falsy
Not(o) == o = Undefined \/ ValueOf(o) = 0
\* x || 0
OrZero(o) == IF Not(o) THEN 0 ELSE ValueOf(o)

\* Math.round(n / d) for d > 0: the nearest integer, ties towards +Infinity.
\* Computed on the exact quotient; the double n / d * 100 of the source
\* rounds the same way for every amount the inputs below can produce when
\* compared with 100 and with the warning thresholds
MathRound(n, d) == (2 * n + d) \div (2 * d)
\* Math.ceil(n / d) for d > 0
MathCeil(n, d) == -((-n) \div d)

(***************************************************************************)
(* Dates (ECMAScript Date in local time).                                  *)
(***************************************************************************)
MsPerUnit == 60 * 1000
DayLength == (24 * 60 * 60 * 1000) \div MsPerUnit
WeekLength == (7 * 24 * 60 * 60 * 1000) \div MsPerUnit
Years == 1999 .. 2030

IsLeapYear(y) == (y % 4 = 0 /\ y % 100 # 0) \/ y % 400 = 0
\* days from 2000-01-01 to January 1 of year y
DayFromYear(y) ==
    365 * (y - 2000) + ((y - 1) \div 4 - (y - 1) \div 100 + (y - 1) \div 400) - 484
MonthLengths(y) ==
    <<31, IF IsLeapYear(y) THEN 29 ELSE 28, 31, 30, 31, 30, 31, 31, 30, 31, 30, 31>>
RECURSIVE DaysBeforeMonth(_, _)
\* days from January 1 of y to the first day of month m0 (0-based, 0..12)
DaysBeforeMonth(y, m0) ==
    IF m0 = 0 THEN 0 ELSE DaysBeforeMonth(y, m0 - 1) + MonthLengths(y)[m0]
\* MakeDay of ECMAScript: a month outside 0..11 carries into the year and
\* a day of the month outside the month carries into the following months
MakeDay(y, m0, dt) ==
    LET ym == y + m0 \div 12
        mn == m0 % 12
    IN  DayFromYear(ym) + DaysBeforeMonth(ym, mn) + dt - 1
MakeDate(day, time) == day * DayLength + time
Day(t) == t \div DayLength
TimeWithinDay(t) == t % DayLength
getFullYear(t) ==
    CHOOSE y \in Years : DayFromYear(y) <= Day(t) /\ Day(t) < DayFromYear(y + 1)
getMonth(t) ==
    LET y == getFullYear(t)
        n == Day(t) - DayFromYear(y)
    IN  CHOOSE m0 \in 0 .. 11 :
            DaysBeforeMonth(y, m0) <= n /\ n < DaysBeforeMonth(y, m0 + 1)
getDate(t) ==
    LET y == getFullYear(t)
    IN  Day(t) - DayFromYear(y) - DaysBeforeMonth(y, getMonth(t)) + 1
setDate(t, dt) == MakeDate(MakeDay(getFullYear(t), getMonth(t), dt), TimeWithinDay(t))
setMonth(t, m0) == MakeDate(MakeDay(getFullYear(t), m0, getDate(t)), TimeWithinDay(t))
setFullYear(t, y) == MakeDate(MakeDay(y, getMonth(t), getDate(t)), TimeWithinDay(t))
\* new Date(y, m0, dt, h, mi)
DateOf(y, m0, dt, h, mi) ==
    MakeDate(MakeDay(y, m0, dt), (h * 60 * 60 * 1000 + mi * 60 * 1000) \div MsPerUnit)

(***************************************************************************)
(* The clock: new Date() reads one of these instants; time only advances.  *)
(***************************************************************************)
NewYearsEve == DateOf(2023, 11, 31, 23, 59)
NewYear == DateOf(2024, 0, 1, 0, 0)
MidJanuary == DateOf(2024, 0, 15, 9, 0)
EndJanuary == DateOf(2024, 0, 31, 9, 0)
AlmostADayLater == EndJanuary + DayLength - 1
ADayLater == EndJanuary + DayLength
LeapDay == DateOf(2024, 1, 29, 9, 0)
Instants ==
    {NewYearsEve, NewYear, MidJanuary, EndJanuary, AlmostADayLater, ADayLater, LeapDay}

(***************************************************************************)
(* Budget: schema, virtuals, pre('save') hook, methods.                    *)
(***************************************************************************)
Callers == {"a", "b"}
Periods == {"weekly", "monthly", "quarterly", "yearly"}
Statuses == {"active", "completed", "paused", "exceeded"}
TxTypes == {"expense", "income"}
TxAmounts == {30, 120, 199}
BudgetedAmounts == {0, 100, 200}

\* what the caller passes to new Budget({...}); every path may be left out
\* except the ones the inputs below always give
DefaultRaw ==
    [budgetedAmount |-> 100, actualAmount |-> Undefined, period |-> Undefined,
     year |-> Def(2024), month |-> Undefined, week |-> Undefined,
     quarter |-> Undefined, status |-> Undefined, transactions |-> <<>>,
     enabled |-> Undefined, warning |-> Undefined, lastAlertSent |-> Undefined,
     isRecurring |-> Undefined, frequency |-> Undefined]

\* x === undefined ? default : x
Default(o, dflt) == IF o = Undefined THEN dflt ELSE ValueOf(o)

\* new Budget(raw): the schema defaults fill the paths left out
NewBudget(raw) ==
    [budgetedAmount |-> raw.budgetedAmount,
     actualAmount |-> Default(raw.actualAmount, 0),
     period |-> Default(raw.period, "monthly"),
     year |-> raw.year,
     month |-> raw.month,
     week |-> raw.week,
     quarter |-> raw.quarter,
     status |-> Default(raw.status, "active"),
     transactions |-> raw.transactions,
     alerts |-> [enabled |-> Default(raw.enabled, TRUE),
                 thresholds |-> [warning |-> Default(raw.warning, 80), critical |-> 95],
                 lastAlertSent |-> raw.lastAlertSent],
     recurringSettings |-> [isRecurring |-> Default(raw.isRecurring, FALSE),
                            frequency |-> raw.frequency,
                            nextDueDate |-> Undefined]]

remainingAmount(doc) == doc.budgetedAmount - doc.actualAmount

percentageUsed(doc) ==
    IF doc.budgetedAmount = 0 THEN 0
    ELSE MathRound(doc.actualAmount * 100, doc.budgetedAmount)

usageStatus(doc) ==
    LET percentage == percentageUsed(doc)
    IN  IF percentage >= 100 THEN "exceeded"
        ELSE IF percentage >= doc.alerts.thresholds.critical THEN "critical"
        ELSE IF percentage >= doc.alerts.thresholds.warning THEN "warning"
        ELSE "good"

RECURSIVE Reduce(_, _)
\* transactions.reduce(..., 0), folding from the left
Reduce(transactions, n) ==
    IF n = 0 THEN 0
    ELSE IF transactions[n].type = "expense"
         THEN Reduce(transactions, n - 1) + transactions[n].amount
         ELSE Reduce(transactions, n - 1) - transactions[n].amount

totalTransactions(doc) == Reduce(doc.transactions, Len(doc.transactions))

\* step 1 of the hook: the default year
SetYear(doc, t) ==
    IF Not(doc.year) THEN [doc EXCEPT !.year = Def(getFullYear(t))] ELSE doc

\* step 2: the period-specific field of the document's period
SetPeriodFields(doc, t) ==
    IF doc.period = "monthly" /\ Not(doc.month)
    THEN [doc EXCEPT !.month = Def(getMonth(t) + 1)]
    ELSE IF doc.period = "quarterly" /\ Not(doc.quarter)
    THEN [doc EXCEPT !.quarter = Def(MathCeil(getMonth(t) + 1, 3))]
    ELSE IF doc.period = "weekly" /\ Not(doc.week)
    THEN LET start == DateOf(ValueOf(doc.year), 0, 1, 0, 0)
             diff == t - start
         IN  [doc EXCEPT !.week = Def(MathCeil(diff, WeekLength))]
    ELSE doc

\* a hook that trusts the actualAmount it finds
SetActualAmountTrusted(doc) == doc
\* a hook that adds the transaction total to the actualAmount it finds
SetActualAmountAdded(doc) == [doc EXCEPT !.actualAmount = @ + totalTransactions(doc)]
\* step 3: the actual amount from the transactions
SetActualAmount(doc) == [doc EXCEPT !.actualAmount = totalTransactions(doc)]

\* a hook that never leaves 'exceeded'
SetStatusNoRecovery(doc) ==
    IF percentageUsed(doc) >= 100 THEN [doc EXCEPT !.status = "exceeded"] ELSE doc
\* a hook that makes every budget below 100% 'active'
SetStatusRecoverAny(doc) ==
    IF percentageUsed(doc) >= 100 THEN [doc EXCEPT !.status = "exceeded"]
    ELSE [doc EXCEPT !.status = "active"]
\* step 4: the status from the usage
SetStatus(doc) ==
    IF percentageUsed(doc) >= 100 THEN [doc EXCEPT !.status = "exceeded"]
    ELSE IF doc.status = "exceeded" /\ percentageUsed(doc) < 100
    THEN [doc EXCEPT !.status = "active"]
    ELSE doc

\* the switch over recurringSettings.frequency; no case matches an
\* undefined frequency and the date stays as read from the clock
NextDue(frequency, t) ==
    IF frequency = Def("weekly") THEN setDate(t, getDate(t) + 7)
    ELSE IF frequency = Def("monthly") THEN setMonth(t, getMonth(t) + 1)
    ELSE IF frequency = Def("quarterly") THEN setMonth(t, getMonth(t) + 3)
    ELSE IF frequency = Def("yearly") THEN setFullYear(t, getFullYear(t) + 1)
    ELSE t

\* step 5: the next due date of a recurring budget (a Date is never falsy)
SetNextDueDate(doc, t) ==
    IF doc.recurringSettings.isRecurring /\ doc.recurringSettings.nextDueDate = Undefined
    THEN [doc EXCEPT !.recurringSettings.nextDueDate =
                         Def(NextDue(doc.recurringSettings.frequency, t))]
    ELSE doc

\* budgetSchema.pre('save'), with new Date() reading t
BudgetPreSave(doc, t) ==
    SetNextDueDate(SetStatus(SetActualAmount(SetPeriodFields(SetYear(doc, t), t))), t)

\* shouldSendAlert() that still suppresses at exactly one day
shouldSendAlertInclusive(doc, t) ==
    IF ~doc.alerts.enabled THEN FALSE
    ELSE IF doc.alerts.lastAlertSent # Undefined
            /\ (t - ValueOf(doc.alerts.lastAlertSent)) <= DayLength
    THEN FALSE
    ELSE percentageUsed(doc) >= doc.alerts.thresholds.warning
\* shouldSendAlert(), with new Date() reading t
shouldSendAlert(doc, t) ==
    IF ~doc.alerts.enabled THEN FALSE
    ELSE LET percentage == percentageUsed(doc)
             lastAlert == doc.alerts.lastAlertSent
         IN  IF lastAlert # Undefined /\ (t - ValueOf(lastAlert)) < DayLength
             THEN FALSE
             ELSE percentage >= doc.alerts.thresholds.warning

\* the filter of findNeedingAlerts
NeedsAlert(doc) == doc.alerts.enabled /\ doc.status = "active" /\ doc.actualAmount >= 0

\* the filter of findOverdueRecurring
OverdueRecurring(doc, t) ==
    /\ doc.recurringSettings.isRecurring
    /\ doc.recurringSettings.nextDueDate # Undefined
    /\ ValueOf(doc.recurringSettings.nextDueDate) <= t

(***************************************************************************)
(* Validation of a Budget before the hook.  b is the document as loaded    *)
(* (Undefined for a new document): Mongoose validates the required paths   *)
(* and, of the others, the paths set on a new document or modified since   *)
(* the load.                                                               *)
(***************************************************************************)
InRange(o, lo, hi) == o = Undefined \/ (lo <= ValueOf(o) /\ ValueOf(o) <= hi)

ValidTransactions(doc, b) ==
    LET first == IF b = Undefined THEN 1 ELSE Len(ValueOf(b).transactions) + 1
    IN  \A i \in first .. Len(doc.transactions) : doc.transactions[i].amount >= 0

ValidBudget(doc, b) ==
    LET Modified(path(_)) == b = Undefined \/ path(doc) # path(ValueOf(b))
        Year(d) == d.year
        Budgeted(d) == d.budgetedAmount
        Actual(d) == d.actualAmount
        Month(d) == d.month
        Week(d) == d.week
        Quarter(d) == d.quarter
        Warning(d) == d.alerts.thresholds.warning
    IN  /\ doc.year # Undefined
        /\ Modified(Year) => ValueOf(doc.year) >= 2000
        /\ Modified(Budgeted) => doc.budgetedAmount >= 0
        /\ Modified(Actual) => doc.actualAmount >= 0
        /\ Modified(Month) => InRange(doc.month, 1, 12)
        /\ Modified(Week) => InRange(doc.week, 1, 53)
        /\ Modified(Quarter) => InRange(doc.quarter, 1, 4)
        /\ Modified(Warning) =>
               (0 <= doc.alerts.thresholds.warning /\ doc.alerts.thresholds.warning <= 100)
        /\ ValidTransactions(doc, b)

(***************************************************************************)
(* The write of save().  A new document is inserted whole.  For a loaded   *)
(* document Mongoose sends the delta against what it loaded: $set for each *)
(* path whose value changed, $push for the transactions pushed.            *)
(***************************************************************************)
Pushed(doc, b) == SubSeq(doc.transactions, Len(b.transactions) + 1, Len(doc.transactions))

Update(stored, b, doc) ==
    LET Set(path(_)) == IF path(doc) # path(b) THEN path(doc) ELSE path(stored)
        Budgeted(d) == d.budgetedAmount
        Actual(d) == d.actualAmount
        Period(d) == d.period
        Year(d) == d.year
        Month(d) == d.month
        Week(d) == d.week
        Quarter(d) == d.quarter
        Status(d) == d.status
        Alerts(d) == d.alerts
        IsRecurring(d) == d.recurringSettings.isRecurring
        Frequency(d) == d.recurringSettings.frequency
        NextDueDate(d) == d.recurringSettings.nextDueDate
    IN  [budgetedAmount |-> Set(Budgeted),
         actualAmount |-> Set(Actual),
         period |-> Set(Period),
         year |-> Set(Year),
         month |-> Set(Month),
         week |-> Set(Week),
         quarter |-> Set(Quarter),
         status |-> Set(Status),
         transactions |-> stored.transactions \o Pushed(doc, b),
         alerts |-> Set(Alerts),
         recurringSettings |-> [isRecurring |-> Set(IsRecurring),
                                frequency |-> Set(Frequency),
                                nextDueDate |-> Set(NextDueDate)]]

Write(stored, b, doc) ==
    IF b = Undefined THEN Def(doc) ELSE Def(Update(ValueOf(stored), ValueOf(b), doc))

(***************************************************************************)
(* Inputs of the callers.                                                  *)
(***************************************************************************)
Transactions == [type : TxTypes, amount : TxAmounts]
\* a transaction the schema rejects (amount below the minimum)
BadTransaction == [type |-> "expense", amount |-> -1]
TxInputs == Transactions \cup {BadTransaction}
\* the two transactions of the exceed-and-recover scenario
ScenarioTx == {[type |-> "expense", amount |-> 120], [type |-> "income", amount |-> 30]}

\* budgets that differ in their amounts and status
AmountInputs ==
    {[DefaultRaw EXCEPT !.budgetedAmount = b, !.actualAmount = a, !.status = s] :
        b \in BudgetedAmounts, a \in {Undefined, Def(50), Def(-5)},
        s \in {Undefined} \cup {Def(x) : x \in Statuses}}

\* budgets that differ in their period, year and recurrence
Recurrences ==
    {[isRecurring |-> Undefined, frequency |-> Undefined]}
    \cup {[isRecurring |-> Def(TRUE), frequency |-> f] :
             f \in {Undefined} \cup {Def(x) : x \in Periods}}
PeriodInputs ==
    {[DefaultRaw EXCEPT !.period = Def(p), !.year = y,
                        !.isRecurring = r.isRecurring, !.frequency = r.frequency] :
        p \in Periods, y \in {Undefined, Def(2023), Def(2024)}, r \in Recurrences}
\* budgets whose caller gives the period fields
AnchoredInputs ==
    {[DefaultRaw EXCEPT !.period = Def(p), !.month = Def(7), !.week = Def(30),
                        !.quarter = Def(3)] : p \in Periods}
\* budgets that differ in their alert settings
AlertInputs ==
    {[DefaultRaw EXCEPT !.budgetedAmount = b, !.enabled = e, !.warning = w] :
        b \in {0, 100}, e \in {Undefined, Def(FALSE)},
        w \in {Undefined, Def(0), Def(100)}}

(***************************************************************************)
(* State: the clock, the stored Budget, and per caller the document in     *)
(* memory, the document as last loaded or saved, and how far the caller    *)
(* is; ret is what the last call of a method returned.                     *)
(***************************************************************************)
NoRecord ==
    /\ store = Undefined
    /\ \A c \in Callers : mem[c] = Undefined
    /\ tax = Undefined
    /\ estate = Undefined

Init ==
    /\ now = NewYearsEve
    /\ store = Undefined
    /\ mem = [c \in Callers |-> Undefined]
    /\ base = [c \in Callers |-> Undefined]
    /\ phase = [c \in Callers |-> "none"]
    /\ ret = Undefined
    /\ tax = Undefined
    /\ taxPhase = "none"
    /\ estate = Undefined
    /\ estatePhase = "none"

OtherRecords == <<tax, taxPhase, estate, estatePhase>>

\* new Budget(raw)
CreateBudget(c, inputs) ==
    /\ NoRecord
    /\ \E raw \in inputs : mem' = [mem EXCEPT ![c] = Def(NewBudget(raw))]
    /\ phase' = [phase EXCEPT ![c] = "new"]
    /\ ret' = Undefined
    /\ UNCHANGED <<now, store, base, OtherRecords>>

\* Budget.findById(id)
Load(c) ==
    /\ store # Undefined
    /\ mem' = [mem EXCEPT ![c] = store]
    /\ base' = [base EXCEPT ![c] = store]
    /\ phase' = [phase EXCEPT ![c] = "loaded"]
    /\ ret' = Undefined
    /\ UNCHANGED <<now, store, OtherRecords>>

\* the phase after a successful save of a document in phase p that was not
\* edited since
AfterSave(p) == IF p \in {"saved", "resaved"} THEN "resaved" ELSE "saved"

\* doc.save() by caller c: validation, the pre('save') hook, the write
Persist(c, doc) ==
    /\ IF ValidBudget(doc, base[c])
       THEN LET saved == BudgetPreSave(doc, now)
                again == Def(doc) = mem[c]
            IN  /\ mem' = [mem EXCEPT ![c] = Def(saved)]
                /\ base' = [base EXCEPT ![c] = Def(saved)]
                /\ store' = Write(store, base[c], saved)
                /\ phase' = [phase EXCEPT ![c] = IF again THEN AfterSave(phase[c]) ELSE "saved"]
       ELSE /\ mem' = [mem EXCEPT ![c] = Def(doc)]
            /\ phase' = [phase EXCEPT ![c] = "rejected"]
            /\ UNCHANGED <<store, base>>
    /\ ret' = Undefined
    /\ UNCHANGED <<now, OtherRecords>>

Save(c) ==
    /\ mem[c] # Undefined
    /\ Persist(c, ValueOf(mem[c]))

\* doc.addTransaction(transactionData)
AddTransaction(c, transactionData) ==
    /\ mem[c] # Undefined
    /\ Len(ValueOf(mem[c]).transactions) < MaxTx
    /\ Persist(c, [ValueOf(mem[c]) EXCEPT !.transactions = Append(@, transactionData)])

\* the caller records that it dispatched an alert
MarkAlertSent(c) ==
    /\ mem[c] # Undefined
    /\ mem' = [mem EXCEPT ![c] = Def([ValueOf(mem[c]) EXCEPT !.alerts.lastAlertSent = Def(now)])]
    /\ phase' = [phase EXCEPT ![c] = "edited"]
    /\ ret' = Undefined
    /\ UNCHANGED <<now, store, base, OtherRecords>>

\* doc.shouldSendAlert()
ShouldSendAlert(c) ==
    /\ mem[c] # Undefined
    /\ ret' = Def([of |-> c, value |-> shouldSendAlert(ValueOf(mem[c]), now)])
    /\ UNCHANGED <<now, store, mem, base, phase, OtherRecords>>

\* a document saved at an earlier instant
Aged(p) == IF p \in {"saved", "resaved"} THEN "persisted" ELSE p

\* time passes
Tick ==
    /\ \E t \in Instants : t > now /\ now' = t
    /\ phase' = [c \in Callers |-> Aged(phase[c])]
    /\ taxPhase' = Aged(taxPhase)
    /\ estatePhase' = Aged(estatePhase)
    /\ ret' = Undefined
    /\ UNCHANGED <<store, mem, base, tax, estate>>

(***************************************************************************)
(* TaxRecord: schema defaults, the totalIncome virtual, the pre('save')    *)
(* hook.  No numeric path of the schema has a validator.                   *)
(***************************************************************************)
DefaultTaxRaw ==
    [wages |-> Undefined, dividends |-> Undefined, capitalGains |-> Undefined,
     businessIncome |-> Undefined, otherIncome |-> Undefined,
     totalDeductions |-> Undefined, taxableIncome |-> Undefined,
     taxOwed |-> Undefined, taxPaid |-> Undefined, refundOrOwed |-> Undefined]

\* new TaxRecord(raw)
NewTaxRecord(raw) ==
    [income |-> [wages |-> Default(raw.wages, 0),
                 dividends |-> Default(raw.dividends, 0),
                 capitalGains |-> Default(raw.capitalGains, 0),
                 businessIncome |-> Default(raw.businessIncome, 0),
                 otherIncome |-> Default(raw.otherIncome, 0)],
     deductions |-> [totalDeductions |-> Default(raw.totalDeductions, 0)],
     taxableIncome |-> Default(raw.taxableIncome, 0),
     taxOwed |-> Default(raw.taxOwed, 0),
     taxPaid |-> Default(raw.taxPaid, 0),
     refundOrOwed |-> Default(raw.refundOrOwed, 0)]

\* a total that leaves out otherIncome
totalIncomeOfFour(doc) ==
    doc.income.wages + doc.income.dividends + doc.income.capitalGains
    + doc.income.businessIncome
totalIncome(doc) ==
    LET income == doc.income
    IN  income.wages + income.dividends + income.capitalGains
        + income.businessIncome + income.otherIncome

\* taxRecordSchema.pre('save')
TaxPreSave(doc) ==
    LET taxable == [doc EXCEPT !.taxableIncome = totalIncome(doc) - doc.deductions.totalDeductions]
    IN  [taxable EXCEPT !.refundOrOwed = taxable.taxPaid - taxable.taxOwed]

TaxInputs ==
    {[DefaultTaxRaw EXCEPT !.wages = w, !.dividends = d, !.capitalGains = g,
                           !.businessIncome = b, !.otherIncome = o,
                           !.totalDeductions = t, !.taxPaid = p, !.taxOwed = p,
                           !.taxableIncome = x, !.refundOrOwed = x] :
        w \in {Undefined, Def(80000)}, d \in {Undefined, Def(5)},
        g \in {Undefined, Def(-3)}, b \in {Undefined, Def(7)},
        o \in {Undefined, Def(11)}, t \in {Undefined, Def(20000)},
        p \in {Undefined, Def(15000)}, x \in {Undefined, Def(1)}}

CreateTaxRecord ==
    /\ NoRecord
    /\ \E raw \in TaxInputs : tax' = Def(NewTaxRecord(raw))
    /\ taxPhase' = "new"
    /\ ret' = Undefined
    /\ UNCHANGED <<now, store, mem, base, phase, estate, estatePhase>>

\* the caller changes the amounts of the record, derived ones included
EditTaxRecord ==
    /\ tax # Undefined
    /\ \E paid \in {0, 15000}, owed \in {0, 12000}, taxable \in {0, 1} :
          tax' = Def([ValueOf(tax) EXCEPT !.taxPaid = paid, !.taxOwed = owed,
                                          !.taxableIncome = taxable,
                                          !.refundOrOwed = taxable])
    /\ tax' # tax
    /\ taxPhase' = "edited"
    /\ ret' = Undefined
    /\ UNCHANGED <<now, store, mem, base, phase, estate, estatePhase>>

\* doc.save() of the TaxRecord
SaveTaxRecord ==
    /\ tax # Undefined
    /\ tax' = Def(TaxPreSave(ValueOf(tax)))
    /\ taxPhase' = AfterSave(taxPhase)
    /\ ret' = Undefined
    /\ UNCHANGED <<now, store, mem, base, phase, estate, estatePhase>>

(***************************************************************************)
(* EstatePlan: schema, the calculatedEstateValue virtual, the pre('save')  *)
(* hook.  An asset is its estimatedValue.                                  *)
(***************************************************************************)
AssetValues == {25000, 50000, 100000}
\* what a caller may give as an asset: a value or nothing
AssetInputs == {Def(v) : v \in AssetValues} \cup {Undefined}

\* new EstatePlan(raw)
NewEstatePlan(raw) ==
    [assets |-> raw.assets,
     totalEstateValue |-> Default(raw.totalEstateValue, 0),
     nextReviewDate |-> raw.nextReviewDate]

RECURSIVE ReduceAssets(_, _)
\* assets.reduce(..., 0), folding from the left
ReduceAssets(assets, n) ==
    IF n = 0 THEN 0
    ELSE ReduceAssets(assets, n - 1) + OrZero(assets[n].estimatedValue)

calculatedEstateValue(doc) == ReduceAssets(doc.assets, Len(doc.assets))

\* a hook that computes the total only while it is 0
EstatePreSaveOnce(doc, t) ==
    LET valued == IF doc.totalEstateValue = 0
                  THEN [doc EXCEPT !.totalEstateValue = calculatedEstateValue(doc)]
                  ELSE doc
    IN  IF valued.nextReviewDate = Undefined
        THEN [valued EXCEPT !.nextReviewDate = Def(setFullYear(t, getFullYear(t) + 1))]
        ELSE valued
\* estatePlanSchema.pre('save'), with new Date() reading t (a Date is never falsy)
EstatePreSave(doc, t) ==
    LET valued == [doc EXCEPT !.totalEstateValue = calculatedEstateValue(doc)]
    IN  IF valued.nextReviewDate = Undefined
        THEN [valued EXCEPT !.nextReviewDate = Def(setFullYear(t, getFullYear(t) + 1))]
        ELSE valued

\* needsReview(), with new Date() reading t
needsReview(doc, t) == doc.nextReviewDate # Undefined /\ ValueOf(doc.nextReviewDate) <= t

\* estimatedValue is required and at least 0
ValidEstatePlan(doc) ==
    \A i \in 1 .. Len(doc.assets) :
        /\ doc.assets[i].estimatedValue # Undefined
        /\ ValueOf(doc.assets[i].estimatedValue) >= 0

EstateInputs ==
    [assets : {<<>>}, totalEstateValue : {Undefined, Def(999)},
     nextReviewDate : {Undefined, Def(MidJanuary)}]

CreateEstatePlan ==
    /\ NoRecord
    /\ \E raw \in EstateInputs : estate' = Def(NewEstatePlan(raw))
    /\ estatePhase' = "new"
    /\ ret' = Undefined
    /\ UNCHANGED <<now, store, mem, base, phase, tax, taxPhase>>

\* doc.assets.push(asset)
AddAsset ==
    /\ estate # Undefined
    /\ Len(ValueOf(estate).assets) < MaxAssets
    /\ \E v \in AssetInputs :
          estate' = Def([ValueOf(estate) EXCEPT !.assets = Append(@, [estimatedValue |-> v])])
    /\ estatePhase' = "edited"
    /\ ret' = Undefined
    /\ UNCHANGED <<now, store, mem, base, phase, tax, taxPhase>>

\* doc.assets.splice(i - 1, 1)
RemoveAsset ==
    /\ estate # Undefined
    /\ \E i \in 1 .. Len(ValueOf(estate).assets) :
          estate' = Def([ValueOf(estate) EXCEPT !.assets =
                             SubSeq(@, 1, i - 1) \o SubSeq(@, i + 1, Len(@))])
    /\ estatePhase' = "edited"
    /\ ret' = Undefined
    /\ UNCHANGED <<now, store, mem, base, phase, tax, taxPhase>>

\* doc.assets[i - 1].estimatedValue = v
EditAsset ==
    /\ estate # Undefined
    /\ \E i \in 1 .. Len(ValueOf(estate).assets), v \in AssetInputs :
          /\ ValueOf(estate).assets[i].estimatedValue # v
          /\ estate' = Def([ValueOf(estate) EXCEPT !.assets[i].estimatedValue = v])
    /\ estatePhase' = "edited"
    /\ ret' = Undefined
    /\ UNCHANGED <<now, store, mem, base, phase, tax, taxPhase>>

\* doc.save() of the EstatePlan
SaveEstatePlan ==
    /\ estate # Undefined
    /\ IF ValidEstatePlan(ValueOf(estate))
       THEN /\ estate' = Def(EstatePreSave(ValueOf(estate), now))
            /\ estatePhase' = AfterSave(estatePhase)
       ELSE /\ estatePhase' = "rejected"
            /\ UNCHANGED estate
    /\ ret' = Undefined
    /\ UNCHANGED <<now, store, mem, base, phase, tax, taxPhase>>

\* one caller, budgets that differ in amounts and status
Next ==
    \/ CreateBudget("a", AmountInputs)
    \/ Load("a")
    \/ Save("a")
    \/ \E tx \in TxInputs : AddTransaction("a", tx)
    \/ Tick

Spec == Init /\ [][Next]_vars

\* one caller, budgets that differ in alert settings
NextAlert ==
    \/ CreateBudget("a", AlertInputs)
    \/ Save("a")
    \/ \E tx \in ScenarioTx : AddTransaction("a", tx)
    \/ MarkAlertSent("a")
    \/ ShouldSendAlert("a")
    \/ Tick

SpecAlert == Init /\ [][NextAlert]_vars

\* one caller and one record of any of the three models: budgets that
\* differ in period, year and recurrence, tax records, estate plans
NextDerive ==
    \/ CreateBudget("a", PeriodInputs \cup AnchoredInputs)
    \/ Load("a")
    \/ Save("a")
    \/ \E tx \in ScenarioTx : AddTransaction("a", tx)
    \/ CreateTaxRecord
    \/ EditTaxRecord
    \/ SaveTaxRecord
    \/ CreateEstatePlan
    \/ AddAsset
    \/ RemoveAsset
    \/ EditAsset
    \/ SaveEstatePlan
    \/ Tick

SpecDerive == Init /\ [][NextDerive]_vars

\* two callers of one budget of 100: each loads it, adds transactions, saves
NextRace ==
    \/ CreateBudget("a", {DefaultRaw})
    \/ \E c \in Callers :
          \/ Load(c)
          \/ Save(c)
          \/ \E tx \in ScenarioTx : AddTransaction(c, tx)

SpecRace == Init /\ [][NextRace]_vars

(***************************************************************************)
(* Properties of the Budget amounts and status.                            *)
(***************************************************************************)
IsSaved(p) == p \in {"saved", "resaved", "persisted"}
\* the step is a successful save() of caller c, alone or inside addTransaction
SaveStep(c) ==
    /\ phase'[c] \in {"saved", "resaved"}
    /\ Save(c) \/ \E tx \in TxInputs : AddTransaction(c, tx)

RECURSIVE SumOf(_, _, _)
\* the sum of the amounts of the transactions of one type
SumOf(type, transactions, n) ==
    IF n = 0 THEN 0
    ELSE SumOf(type, transactions, n - 1)
         + (IF transactions[n].type = type THEN transactions[n].amount ELSE 0)
ExpensesMinusIncome(transactions) ==
    SumOf("expense", transactions, Len(transactions))
    - SumOf("income", transactions, Len(transactions))
\* round(actual / budgeted * 100) >= 100, that is actual / budgeted >= 0.995
UsedUp(doc) == doc.budgetedAmount # 0 /\ 200 * doc.actualAmount >= 199 * doc.budgetedAmount

\* C1: after any save the stored actualAmount is the sum of the expense
\* amounts minus the sum of the income amounts of the stored transactions,
\* whatever actualAmount the caller had set
ActualAmountIsTransactionTotal ==
    /\ store # Undefined =>
           ValueOf(store).actualAmount = ExpensesMinusIncome(ValueOf(store).transactions)
    /\ \A c \in Callers : IsSaved(phase[c]) =>
           ValueOf(mem[c]).actualAmount = ExpensesMinusIncome(ValueOf(mem[c]).transactions)
\* a stored budget with an expense and an income, 120 - 30
ActualAmountWitness ==
    /\ store # Undefined
    /\ ValueOf(store).transactions =
           <<[type |-> "expense", amount |-> 120], [type |-> "income", amount |-> 30]>>
    /\ ValueOf(store).actualAmount = 90

\* C2: on save, usage of 100% or more makes the status 'exceeded'; below
\* that a status 'exceeded' becomes 'active'.  A budget of 100 with one
\* expense of 120 is 'exceeded', and 'active' with actualAmount 90 after an
\* income of 30 is added
StatusFollowsUsage ==
    [][\A c \in Callers : SaveStep(c) =>
          LET before == ValueOf(mem[c])
              after == ValueOf(mem'[c])
          IN  /\ UsedUp(after) => after.status = "exceeded"
              /\ (~UsedUp(after) /\ before.status = "exceeded") => after.status = "active"
              /\ (after.budgetedAmount = 100
                  /\ after.transactions = <<[type |-> "expense", amount |-> 120]>>)
                 => (after.status = "exceeded" /\ after.actualAmount = 120)
              /\ (after.budgetedAmount = 100
                  /\ after.transactions = <<[type |-> "expense", amount |-> 120],
                                            [type |-> "income", amount |-> 30]>>)
                 => (after.status = "active" /\ after.actualAmount = 90)]_vars
\* the budget of 100 back to 'active' after the expense of 120 and the income of 30
StatusWitness ==
    /\ phase["a"] = "saved"
    /\ ValueOf(mem["a"]).budgetedAmount = 100
    /\ ValueOf(mem["a"]).transactions =
           <<[type |-> "expense", amount |-> 120], [type |-> "income", amount |-> 30]>>
    /\ ValueOf(mem["a"]).status = "active"
    /\ ValueOf(mem["a"]).actualAmount = 90

\* C3 as stated: a status 'completed' or 'paused' before a save is the
\* status after the save
CompletedPausedNeverOverridden ==
    [][\A c \in Callers : SaveStep(c) =>
          (ValueOf(mem[c]).status \in {"completed", "paused"}
           => ValueOf(mem'[c]).status = ValueOf(mem[c]).status)]_vars
\* C3 as amended: a status 'completed' or 'paused' before a save is the
\* status after the save when the recomputed usage is below 100%, and
\* becomes 'exceeded' when it is 100% or more
CompletedPausedKeptBelowFull ==
    [][\A c \in Callers : SaveStep(c) =>
          (ValueOf(mem[c]).status \in {"completed", "paused"}
           => ValueOf(mem'[c]).status =
                  IF UsedUp(ValueOf(mem'[c])) THEN "exceeded" ELSE ValueOf(mem[c]).status)]_vars
\* a paused budget saved with transactions and still paused
CompletedPausedWitness ==
    /\ phase["a"] = "saved"
    /\ ValueOf(mem["a"]).status = "paused"
    /\ ValueOf(mem["a"]).budgetedAmount = 200
    /\ ValueOf(mem["a"]).transactions = <<[type |-> "expense", amount |-> 120]>>

\* C4: after any save the stored actualAmount is not negative
ActualAmountNonNegative ==
    store # Undefined => ValueOf(store).actualAmount >= 0

(***************************************************************************)
(* Properties of the alerts, the other two models, idempotence,            *)
(* recurrence and concurrent callers.                                      *)
(***************************************************************************)
\* C5: shouldSendAlert is false when alerts are disabled, false when
\* lastAlertSent is less than 24 hours before now, and otherwise (a gap of
\* exactly 24 hours included) true exactly when percentageUsed is at least
\* the warning threshold
AlertDecision ==
    ret # Undefined =>
        LET doc == ValueOf(mem[ValueOf(ret).of])
            answer == ValueOf(ret).value
            last == doc.alerts.lastAlertSent
            hours == (24 * 60 * 60 * 1000) \div MsPerUnit
            atWarning == percentageUsed(doc) >= doc.alerts.thresholds.warning
        IN  /\ ~doc.alerts.enabled => answer = FALSE
            /\ (last # Undefined /\ now - ValueOf(last) < hours) => answer = FALSE
            /\ (doc.alerts.enabled /\ last # Undefined /\ now - ValueOf(last) = hours)
                   => answer = atWarning
            /\ (doc.alerts.enabled /\ (last = Undefined \/ now - ValueOf(last) >= hours))
                   => answer = atWarning
\* an alert is due exactly 24 hours after the last one
AlertWitness ==
    /\ ret # Undefined
    /\ ValueOf(ret).value = TRUE
    /\ ValueOf(mem["a"]).alerts.lastAlertSent = Def(EndJanuary)
    /\ now = ADayLater

\* C6: after any save of a TaxRecord, taxableIncome is the sum of the five
\* income amounts minus totalDeductions and refundOrOwed is taxPaid minus
\* taxOwed, whatever the caller had put in the two paths
TaxDerivedFields ==
    IsSaved(taxPhase) =>
        LET doc == ValueOf(tax)
        IN  /\ doc.taxableIncome =
                   (doc.income.wages + doc.income.dividends + doc.income.capitalGains
                    + doc.income.businessIncome + doc.income.otherIncome)
                   - doc.deductions.totalDeductions
            /\ doc.refundOrOwed = doc.taxPaid - doc.taxOwed
\* income of 80011, deductions of 20000, 15000 paid and 12000 owed
TaxWitness ==
    /\ taxPhase = "saved"
    /\ ValueOf(tax).income.wages = 80000
    /\ ValueOf(tax).income.otherIncome = 11
    /\ ValueOf(tax).taxableIncome = 60011
    /\ ValueOf(tax).refundOrOwed = 3000

RECURSIVE SumOfValues(_, _)
\* the sum of the estimated values of the first n assets, a missing one as 0
SumOfValues(assets, n) ==
    IF n = 0 THEN 0
    ELSE SumOfValues(assets, n - 1)
         + (IF assets[n].estimatedValue = Undefined THEN 0
            ELSE ValueOf(assets[n].estimatedValue))

\* C7: after any save of an EstatePlan, totalEstateValue is the sum of the
\* estimated values of its assets
EstateValueIsAssetTotal ==
    IsSaved(estatePhase) =>
        ValueOf(estate).totalEstateValue =
            SumOfValues(ValueOf(estate).assets, Len(ValueOf(estate).assets))
\* assets of 100000, 50000 and 25000 saved as 175000
EstateWitness ==
    /\ estatePhase = "saved"
    /\ ValueOf(estate).assets = <<[estimatedValue |-> Def(100000)],
                                  [estimatedValue |-> Def(50000)],
                                  [estimatedValue |-> Def(25000)]>>
    /\ ValueOf(estate).totalEstateValue = 175000

\* the paths the hooks set only when absent are present
GuardedFieldsSet(doc) ==
    /\ doc.year # Undefined
    /\ doc.period = "monthly" => doc.month # Undefined
    /\ doc.period = "quarterly" => doc.quarter # Undefined
    /\ doc.period = "weekly" => doc.week # Undefined
    /\ doc.recurringSettings.isRecurring => doc.recurringSettings.nextDueDate # Undefined

MonthIndex(t) == getFullYear(t) * 12 + getMonth(t)

\* C9: a save of a recurring Budget without nextDueDate sets it strictly
\* later than now: 7 days later for weekly, in the calendar month right
\* after now's month for monthly (2024-01-15 gives 2024-02-15), 3 months
\* on for quarterly, a year on for yearly
NextDueDateDefaulted ==
    [][\A c \in Callers :
          (/\ SaveStep(c)
           /\ ValueOf(mem[c]).recurringSettings.isRecurring
           /\ ValueOf(mem[c]).recurringSettings.nextDueDate = Undefined
           /\ ValueOf(mem[c]).recurringSettings.frequency # Undefined)
          => LET frequency == ValueOf(ValueOf(mem[c]).recurringSettings.frequency)
                 due == ValueOf(mem'[c]).recurringSettings.nextDueDate
             IN  /\ due # Undefined
                 /\ ValueOf(due) > now
                 /\ frequency = "weekly" => ValueOf(due) = now + 7 * DayLength
                 /\ frequency = "monthly" => MonthIndex(ValueOf(due)) = MonthIndex(now) + 1
                 /\ frequency = "quarterly" => MonthIndex(ValueOf(due)) = MonthIndex(now) + 3
                 /\ frequency = "yearly" => getFullYear(ValueOf(due)) = getFullYear(now) + 1
                 /\ (frequency = "monthly" /\ now = MidJanuary)
                        => ValueOf(due) = DateOf(2024, 1, 15, 9, 0)]_vars

\* C10: with two callers that each load the Budget, add a transaction and
\* save, the stored actualAmount is always the expense-minus-income total
\* of the transactions stored with it
StoredBudgetConsistent ==
    store # Undefined =>
        LET stored == ValueOf(store)
        IN  stored.actualAmount
            = SumOf("expense", stored.transactions, Len(stored.transactions))
              - SumOf("income", stored.transactions, Len(stored.transactions))

\* C11: when a weekly Budget is saved without a week, the week the hook
\* assigns lies in 1..53, the range the schema declares, whatever now and
\* the year of the record are
AssignedWeekInRange ==
    [][\A c \in Callers :
          (/\ phase'[c] \in {"saved", "resaved"}
           /\ SaveStep(c)
           /\ ValueOf(mem[c]).period = "weekly"
           /\ Not(ValueOf(mem[c]).week))
          => LET week == ValueOf(mem'[c]).week
             IN  /\ week # Undefined
                 /\ 1 <= ValueOf(week)
                 /\ ValueOf(week) <= 53]_vars

\* C12: every stored budget with status 'active' has a usage below 100%,
\* so findNeedingAlerts returns no budget whose usage is 100% or more
ActiveIsBelowFull ==
    store # Undefined =>
        LET stored == ValueOf(store)
        IN  /\ stored.status = "active" => ~UsedUp(stored)
            /\ NeedsAlert(stored) => percentageUsed(stored) < 100

====
